---- MODULE Spec2Model ----
(***************************************************************************)
(* A model of astropysics.ccd.CCDImage: the raster of every plane (HDU) of *)
(* the opened file, the active view derived from it through a scaling      *)
(* function, the stored range, the dirty flag and the cached global        *)
(* statistics, with one action per public operation of the class.          *)
(*                                                                         *)
(* Pixel values are integers.  A pixel of the transposed image             *)
(* (file[hdu].data.T, indexed [x,y]) is a pair <<x,y>>; the stored array   *)
(* file[hdu].data is indexed [row,column] = [y,x].                         *)
(*                                                                         *)
(* Inputs drawn by the actions: ranges from RangeArgs, scalings from       *)
(* ScalingArgs (linear, 'sb', an unknown string, a non-callable, and the   *)
(* caller-supplied pair x+ShiftK / x-ShiftK with or without its inverse),  *)
(* replacement actions from ReplActions (numbers, the two 'noclip' names   *)
(* and an unknown string).  The files modelled carry no PIXSCALE header    *)
(* card and no caller assigns pixelscale, so pixelscale stays None.        *)
(***************************************************************************)
EXTENDS Integers, FiniteSets, Sequences, TLC

\* ---------------------------------------------------------------- bounds
XR == 2          \* image extent on x (columns of the stored array)
YR == 2          \* image extent on y (rows of the stored array)
NPlanes == 3     \* planes (HDUs) in the file
Over == 1        \* how far a requested bound may lie outside the image
MaxOps == 4      \* calls made on the object in one run
ShiftK == 1      \* the caller-supplied scaling is x+ShiftK, its inverse x-ShiftK
MaxImages == 2   \* images handed to mosaic_objects or kcorrect_images
MaxX == 3        \* the largest abscissa of the data handed to a fit
ZptVal == 25     \* the zero point a caller assigns

None == "None"    \* a scaling function that is None
NoRange == << >>  \* range None: the whole image
NoHdu == -1       \* hdu None
Planes == 0 .. (NPlanes - 1)
Pix == (0 .. (XR - 1)) \X (0 .. (YR - 1))

\* the files opened: the header of every plane but the last has a card with
\* the empty keyword, which _updateFromHeader deletes (`del d['']`)
HeaderHasBlank(h) == h < NPlanes - 1

Min2(a, b) == IF a < b THEN a ELSE b
Max2(a, b) == IF a > b THEN a ELSE b
Abs(a) == IF a < 0 THEN -a ELSE a

RECURSIVE GCD(_, _)
GCD(a, b) == IF b = 0 THEN a ELSE GCD(b, a % b)

\* the rational num/den (den > 0) in lowest terms
Rat(num, den) ==
    LET g == GCD(Abs(num), den)
    IN  IF g = 0 THEN <<0, 1>> ELSE <<num \div g, den \div g>>

RECURSIVE SumOver(_, _)
SumOver(f, S) ==
    IF S = {} THEN 0
    ELSE LET p == CHOOSE q \in S : TRUE
         IN  f[p] + SumOver(f, S \ {p})

\* the k-th smallest (1-based) of the values f takes on S
Kth(f, S, k) ==
    CHOOSE v \in {f[p] : p \in S} :
        /\ Cardinality({p \in S : f[p] < v}) < k
        /\ k <= Cardinality({p \in S : f[p] <= v})

MinOf(f, S) == CHOOSE v \in {f[p] : p \in S} : \A q \in S : v <= f[q]
MaxOf(f, S) == CHOOSE v \in {f[p] : p \in S} : \A q \in S : v >= f[q]

\* np.median: the middle value, or the mean of the two middle values
MedianOf(f, S) ==
    LET n == Cardinality(S)
    IN  IF n % 2 = 1 THEN Rat(Kth(f, S, (n + 1) \div 2), 1)
        ELSE Rat(Kth(f, S, n \div 2) + Kth(f, S, n \div 2 + 1), 2)

MeanOf(f, S) == Rat(SumOver(f, S), Cardinality(S))

\* the variance n*sum(x^2) - sum(x)^2 over n^2; np.std is its square root,
\* so two standard deviations are equal exactly when these are
VarOf(f, S) ==
    LET n == Cardinality(S)
        s == SumOver(f, S)
        q == SumOver([p \in S |-> f[p] * f[p]], S)
    IN  Rat(n * q - s * s, n * n)

\* _calcGlobalStats over file[chdu].data.ravel()
GlobalStats_view(file, st) ==
    LET S == DOMAIN st.active.val
    IN  [median |-> MedianOf(st.active.val, S), mean |-> MeanOf(st.active.val, S),
         std |-> VarOf(st.active.val, S), min |-> MinOf(st.active.val, S),
         max |-> MaxOf(st.active.val, S)]

GlobalStats(file, st) ==
    LET v == file[st.chdu]
    IN  [median |-> MedianOf(v, Pix), mean |-> MeanOf(v, Pix),
         std |-> VarOf(v, Pix), min |-> MinOf(v, Pix), max |-> MaxOf(v, Pix)]

\* ----------------------------------------------------- scaling functions
\* the callables the model passes around: the identity lambda of
\* setScaling(None) and the caller's pair
ApplyFunc(f, v) ==
    CASE f = "identity" -> v
      [] f = "shift"    -> v + ShiftK
      [] f = "unshift"  -> v - ShiftK
      [] OTHER          -> v

\* `if not self._invscalefunc`
NoInverse_never(inv) == FALSE

NoInverse(inv) == inv = None

\* ------------------------------------------------------------ numpy slices
\* a[l:u] on an axis of length n: the half-open index interval it selects
Slice(l, u, n) ==
    LET l2 == IF l < 0 THEN Max2(l + n, 0) ELSE Min2(l, n)
        u2 == IF u < 0 THEN Max2(u + n, 0) ELSE Min2(u, n)
    IN  <<l2, IF u2 > l2 THEN u2 ELSE l2>>

\* ------------------------------------------------------ range normalisation
\* `if xu <= xl: ... xu,xl = xl,xu` (the equal case raises before this)
OrderAxis_noswap(l, u) == <<l, u>>

OrderAxis(l, u) == IF u <= l THEN <<u, l>> ELSE <<l, u>>

\* "ensure range does not go off edge - recenter"
RecenterAxis_truncate(l, u, r) == <<Max2(l, 0), Min2(u, r)>>

RecenterAxis(l, u, r) ==
    IF u - l > r THEN <<0, r>>
    ELSE IF l < 0 THEN <<0, u - l>>
    ELSE IF u > r THEN <<l - u, r>>
    ELSE <<l, u>>

\* --------------------------------------------------------------- variables
VARIABLES
    file,                    \* file[hdu].data.T: plane -> [Pix -> value]
    chdu,                    \* _chdu
    global_stats,            \* _global_median, _mean, _std, _min, _max
    rng,                     \* _rng
    scalefunc,               \* _scalefunc
    invscalefunc,            \* _invscalefunc
    active,                  \* _active: [shape |-> <<nx,ny>>, val |-> ...]
    abase,                   \* <<plane,x0,y0>> when _active is a numpy view
                             \* of that plane's array at that corner, else << >>
    changed,                 \* _changed
    applyChangesOnActivate,
    zpt,                     \* _zpt: << >> (None) or <<value>>
    closure,                 \* the xmin, xmax the lambdas of setScalingLog
                             \* closed over, << >> before it has run
    amask,                   \* the masked positions of _active when a clip
                             \* has made it a masked array, else {}
    openfiles,               \* the files mosaic_objects and kcorrect_images
                             \* opened that are still open, each named
                             \* <<number of the call, position of the image>>
    splinemodel,             \* a SmoothSplineModel: its parameters s and
                             \* degree, _olds, _oldd, _ws, fitteddata, spline
                             \* and the number of splines constructed so far
    bands,                   \* the keys of the band registry
    groupdict,               \* its _groupdict: group name -> band names
    \* what the last call was and how it ended
    lastOp, lastArg, exc, committed, warned, switched,
    actbox,                  \* <<x0,x1,y0,y1>>: the raster region the last
                             \* completed activateRange took the view from
    seqData,                 \* <<file before the call>> right after an
                             \* activateRange that completed without committing
    ret,                     \* what the last call returned; of
                             \* kcorrect_images, the zeropoint and pixelscale
                             \* its images had when the bands were scaled
    flags,                   \* the positions the last clip handed to
                             \* _repl_inds as flagged
    nops                     \* calls made so far

codevars == <<file, chdu, global_stats, rng, scalefunc, invscalefunc,
              active, abase, changed, applyChangesOnActivate, zpt, amask,
              closure>>
histvars == <<lastOp, lastArg, exc, committed, warned, switched, actbox,
              seqData, ret, flags, nops>>
modvars == <<splinemodel, bands, groupdict>>
vars == <<codevars, openfiles, modvars, histvars>>

\* the object's fields as one record, for the operators below
Cur ==
    [file |-> file, chdu |-> chdu, gstats |-> global_stats,
     rng |-> rng, scalefunc |-> scalefunc, invscalefunc |-> invscalefunc,
     active |-> active, abase |-> abase, changed |-> changed,
     auto |-> applyChangesOnActivate, zpt |-> zpt, mask |-> amask,
     closure |-> closure]

ViewDom(nx, ny) == (0 .. (nx - 1)) \X (0 .. (ny - 1))

\* a returned value: None, a number <<n>> or a 1-D array of numbers
NoRet == [kind |-> "none", v |-> << >>]

\* ------------------------------------------------------------ applyChanges
\* `self.file[self._chdu].data[xl:xu,yl:yu] = altim.T`: the stored array is
\* indexed [row,column], so xl:xu selects rows (y) and yl:yu columns (x);
\* altim.T has shape (ny,nx) and is broadcast onto the selected block
TargetRows(st) == Slice(st.rng[1], st.rng[2], YR)
TargetCols(st) == Slice(st.rng[3], st.rng[4], XR)

Broadcastable(st) ==
    LET tr == TargetRows(st)
        tc == TargetCols(st)
        nx == st.active.shape[1]
        ny == st.active.shape[2]
    IN  /\ (ny = tr[2] - tr[1] \/ ny = 1)
        /\ (nx = tc[2] - tc[1] \/ nx = 1)

BoxWrite(st) ==
    LET tr == TargetRows(st)
        tc == TargetCols(st)
        nx == st.active.shape[1]
        ny == st.active.shape[2]
    IN  [p \in Pix |->
            IF /\ tr[1] <= p[2] /\ p[2] < tr[2]
               /\ tc[1] <= p[1] /\ p[1] < tc[2]
            THEN LET i == IF ny = 1 THEN 0 ELSE p[2] - tr[1]
                     j == IF nx = 1 THEN 0 ELSE p[1] - tc[1]
                 IN  ApplyFunc(st.invscalefunc, st.active.val[<<j, i>>])
            ELSE st.file[st.chdu][p]]

\* `self.file[self._chdu].data = altim.T`
WholeWrite(st) ==
    [p \in Pix |-> ApplyFunc(st.invscalefunc, st.active.val[p])]

\* lines 288-290 on the object s1 the store left
Applied(s1) ==
    [st |-> [s1 EXCEPT !.gstats = GlobalStats(s1.file, s1),
                       !.changed = FALSE],
     exc |-> None]

applyChanges(st) ==
    IF NoInverse(st.invscalefunc)
    THEN [st |-> st, exc |-> "Exception: No inverse function available"]
    ELSE IF st.invscalefunc = st.scalefunc
    THEN Applied(st)
    ELSE IF st.rng = NoRange
    THEN Applied([st EXCEPT !.file[st.chdu] = WholeWrite(st)])
    ELSE IF ~ Broadcastable(st)
    THEN [st |-> st, exc |-> "ValueError: shape mismatch"]
    ELSE Applied([st EXCEPT !.file[st.chdu] = BoxWrite(st)])

\* ----------------------------------------------------------- activateRange
\* lines 206-214: the plane switch
PlaneSwitch(st, hdu) ==
    IF hdu = NoHdu \/ hdu = st.chdu
    THEN [st |-> st, exc |-> None, switched |-> FALSE]
    ELSE IF hdu \notin Planes
    THEN \* _calcGlobalStats raises on self.file[hdu]; _chdu is restored
         [st |-> st, exc |-> "IndexError", switched |-> FALSE]
    ELSE IF ~ HeaderHasBlank(hdu)
    THEN \* _updateFromHeader raises on `del d['']`; _chdu is restored,
         \* the statistics already computed are kept
         [st |-> [st EXCEPT !.gstats =
                      GlobalStats(st.file, [st EXCEPT !.chdu = hdu])],
          exc |-> "KeyError", switched |-> FALSE]
    ELSE [st |-> [st EXCEPT !.chdu = hdu,
                            !.gstats =
                                GlobalStats(st.file, [st EXCEPT !.chdu = hdu])],
          exc |-> None, switched |-> TRUE]

\* lines 216-221: the commit before activation, its failure only warned of
TryCommit(st, r) ==
    IF r.exc = None
    THEN [st |-> r.st, committed |-> TRUE, warned |-> FALSE]
    ELSE [st |-> st, committed |-> FALSE, warned |-> TRUE]

AutoCommit_skip(st) == [st |-> st, committed |-> FALSE, warned |-> FALSE]

AutoCommit(st) ==
    IF st.auto /\ st.changed
    THEN TryCommit(st, applyChanges(st))
    ELSE [st |-> st, committed |-> FALSE, warned |-> FALSE]

\* lines 226-234: a 3-tuple becomes the box around its centre
AsBox(range) ==
    IF Len(range) = 3
    THEN <<range[1] - range[3], range[1] + range[3],
           range[2] - range[3], range[2] + range[3]>>
    ELSE range

\* lines 223-263: the index intervals im[xl:xu,yl:yu] selects, or the error
RangeBox(range) ==
    IF range = NoRange
    THEN [exc |-> None, x |-> <<0, XR>>, y |-> <<0, YR>>]
    ELSE IF Len(range) # 3 /\ Len(range) # 4
    THEN [exc |-> "ValueError: Unregonized form for range",
          x |-> <<0, 0>>, y |-> <<0, 0>>]
    ELSE LET b == AsBox(range)
         IN  IF b[2] = b[1] \/ b[4] = b[3]
             THEN [exc |-> "ValueError: tried to activate size 0 range",
                   x |-> <<0, 0>>, y |-> <<0, 0>>]
             ELSE LET ox == OrderAxis(b[1], b[2])
                      oy == OrderAxis(b[3], b[4])
                      rx == RecenterAxis(ox[1], ox[2], XR)
                      ry == RecenterAxis(oy[1], oy[2], YR)
                  IN  [exc |-> None, x |-> Slice(rx[1], rx[2], XR),
                       y |-> Slice(ry[1], ry[2], YR)]

\* the built-in scalings that need no calibration, by the name setScaling
\* knows them under; 'linear' installs the identity lambda
NamedScalings == {"log", "exp", "power", "asinh"}

\* _scalefunc(v): under a built-in scaling the value is kept as the
\* function, what it closed over and its argument
ScaleValue(st, v) ==
    IF st.scalefunc \in NamedScalings
    THEN <<st.scalefunc, st.closure, v>>
    ELSE ApplyFunc(st.scalefunc, v)

\* line 266 over the selected region of the current plane
ViewOf(st, bx) ==
    [shape |-> <<bx.x[2] - bx.x[1], bx.y[2] - bx.y[1]>>,
     val |-> [q \in ViewDom(bx.x[2] - bx.x[1], bx.y[2] - bx.y[1]) |->
                 ScaleValue(st,
                            st.file[st.chdu][<<bx.x[1] + q[1], bx.y[1] + q[2]>>])]]

\* lines 223-266 after the commit ended in ac: the range is checked, stored
\* and the view taken
ActivateBox(ac, bx, range, sw) ==
    IF bx.exc # None
    THEN [st |-> ac.st, exc |-> bx.exc, committed |-> ac.committed,
          warned |-> ac.warned, switched |-> sw,
          box |-> <<0, 0, 0, 0>>]
    ELSE [st |-> [ac.st EXCEPT
                    !.rng = AsBox(range),
                    !.active = ViewOf(ac.st, bx),
                    !.mask = {},
                    !.abase = IF ac.st.scalefunc = "identity"
                              THEN <<ac.st.chdu, bx.x[1], bx.y[1]>>
                              ELSE << >>],
          exc |-> None, committed |-> ac.committed,
          warned |-> ac.warned, switched |-> sw,
          box |-> <<bx.x[1], bx.x[2], bx.y[1], bx.y[2]>>]

\* lines 216-266 after the plane switch ended in ps
AfterSwitch(ps, range) ==
    IF ps.exc # None
    THEN [st |-> ps.st, exc |-> ps.exc, committed |-> FALSE,
          warned |-> FALSE, switched |-> FALSE, box |-> <<0, 0, 0, 0>>]
    ELSE ActivateBox(AutoCommit(ps.st), RangeBox(range), range, ps.switched)

activateRange(st, range, hdu) == AfterSwitch(PlaneSwitch(st, hdu), range)

\* -------------------------------------------------------------- setScaling
\* a scaling argument is [f |-> scalefunc, inv |-> invscalefunc]; f is
\* "None", one of the strings 'linear', 'sb', 'bogus', the non-callable
\* "notcallable", or the callable "shift"
setScalingSurfaceBrightness_late(st) ==
    [st |-> [st EXCEPT !.scalefunc = "sb", !.invscalefunc = "invsb"],
     exc |-> IF st.zpt = << >> THEN "ValueError: no zero point set"
             ELSE "ValueError: No pixel scale set",
     committed |-> FALSE, warned |-> FALSE, switched |-> FALSE,
     box |-> <<0, 0, 0, 0>>]

\* lines 162-165; pixelscale is None for the files modelled, so the call
\* never gets past the second test
setScalingSurfaceBrightness(st) ==
    [st |-> st,
     exc |-> IF st.zpt = << >> THEN "ValueError: no zero point set"
             ELSE "ValueError: No pixel scale set",
     committed |-> FALSE, warned |-> FALSE, switched |-> FALSE,
     box |-> <<0, 0, 0, 0>>]

\* lines 108-111, the test having found the pair to differ
Rescale(st, newf, newif) ==
    activateRange([st EXCEPT !.scalefunc = newf, !.invscalefunc = newif],
                  st.rng, NoHdu)

\* the call returns or raises e with nothing assigned
Unchanged(st, e) ==
    [st |-> st, exc |-> e, committed |-> FALSE, warned |-> FALSE,
     switched |-> FALSE, box |-> <<0, 0, 0, 0>>]

\* setScalingLog() with its defaults (lines 116-152), setScalingExp,
\* setScalingPower and setScalingASinh (lines 176-195): the lambdas are
\* assigned, then activateRange(self._rng) is called. The log lambdas close
\* over the values _global_min and _global_max have at that moment.
setScalingNamed(st, name) ==
    IF name = "log"
    THEN IF st.gstats = << >>
         THEN Unchanged(st, "AttributeError: _global_min")
         ELSE activateRange([st EXCEPT !.scalefunc = "log",
                                       !.invscalefunc = "invlog",
                                       !.closure = <<st.gstats.min,
                                                     st.gstats.max>>],
                            st.rng, NoHdu)
    ELSE activateRange([st EXCEPT !.scalefunc = name,
                                  !.invscalefunc = "inv" \o name],
                       st.rng, NoHdu)

setScaling(st, arg) ==
    IF arg.f = "None" \/ arg.f = "linear"
    THEN \* a new lambda each time: never equal to the function in place
         Rescale(st, "identity", "identity")
    ELSE IF arg.f = "sb"
    THEN setScalingSurfaceBrightness(st)
    ELSE IF arg.f \in NamedScalings
    THEN setScalingNamed(st, arg.f)
    ELSE IF arg.f = "bogus"
    THEN Unchanged(st, "ValueError: Unrecognized scaling string")
    ELSE IF arg.f = "notcallable"
    THEN Unchanged(st, "ValueError: scalefunc is not a callable")
    ELSE IF st.scalefunc # arg.f \/ st.invscalefunc # arg.inv
    THEN Rescale(st, arg.f, arg.inv)
    ELSE Unchanged(st, None)

\* ------------------------------------------------------ in-place mutation
\* a store into _active; when _active is a view of a plane's array the
\* store lands in that array
WriteActive(st, nv) ==
    LET s1 == [st EXCEPT !.active.val = nv]
    IN  IF st.abase = << >> THEN s1
        ELSE LET h  == st.abase[1]
                 x0 == st.abase[2]
                 y0 == st.abase[3]
                 old == st.file[h]
             IN  [s1 EXCEPT !.file[h] =
                     [p \in Pix |->
                         IF <<p[1] - x0, p[2] - y0>> \in DOMAIN nv
                         THEN nv[<<p[1] - x0, p[2] - y0>>]
                         ELSE old[p]]]

\* lines 408-430 for the actions of ReplActions; F is the set of flagged
\* positions of the view
\* `sum(cliparr)` with the builtin sum: the rows cliparr[0], cliparr[1], ...
\* are added up, which gives one count for each y
SumRows(st, F) ==
    [kind |-> "array",
     v |-> [j \in 1 .. st.active.shape[2] |->
               Cardinality({q \in F : q[2] = j - 1})]]

repl_inds(st, action, F) ==
    IF action.kind = "mask"
    THEN \* masked_array(im, cliparr, copy=False) keeps the mask im has
         [st |-> [st EXCEPT !.mask = st.mask \cup F], exc |-> None,
          ret |-> SumRows(st, F), flags |-> F]
    ELSE IF action.kind = "const"
    THEN [st |-> WriteActive(st, [q \in DOMAIN st.active.val |->
                                     IF q \in F THEN action.c
                                     ELSE st.active.val[q]]),
          exc |-> None, ret |-> SumRows(st, F), flags |-> F]
    ELSE IF action.kind \in {"noclipmedian", "noclipmean"}
    THEN [st |-> st, exc |-> "NameError: clipar", ret |-> NoRet,
          flags |-> F]
    ELSE [st |-> st, exc |-> "ValueError: unrecognized action",
          ret |-> NoRet, flags |-> F]

\* line 318, 344, 356, 384, 406: `self._changed = True`
MarkChanged_not(st) == st

MarkChanged(st) == [st EXCEPT !.changed = TRUE]

\* a clip: the replacement, then the dirty flag
Clipped(r) ==
    IF r.exc # None THEN r
    ELSE [st |-> MarkChanged(r.st), exc |-> None, ret |-> r.ret,
          flags |-> r.flags]

Clip(st, action, F) == Clipped(repl_inds(st, action, F))

\* lines 301-315; limits is <<v>> for a scalar, else the sequence given
\* np.min and np.max of a masked array leave the masked positions out
OutlierFlags(st, limits, percentage) ==
    LET v  == st.active.val
        D  == DOMAIN v
        U  == D \ st.mask
        lm == IF Len(limits) = 1 THEN <<-limits[1], limits[1]>> ELSE limits
        mi == MinOf(v, U)
        ma == MaxOf(v, U)
    IN  IF percentage
        THEN IF U = {} THEN {}
             ELSE {q \in D : \/ 100 * (v[q] - mi) > lm[2] * (ma - mi)
                             \/ 100 * (v[q] - mi) < lm[1] * (ma - mi)}
        ELSE {q \in D : v[q] > lm[2] \/ v[q] < lm[1]}

clipOutliers(st, limits, percentage, action) ==
    IF Len(limits) # 1 /\ Len(limits) # 2
    THEN [st |-> st, exc |-> "ValueError: unrecognized limit form",
          ret |-> NoRet, flags |-> {}]
    ELSE Clip(st, action, OutlierFlags(st, limits, percentage))

\* lines 331-341: with n, s = sum and d2 = n*sum(x^2) - s^2 of statdat,
\* mean = s/n and std = sqrt(d2)/n, so |im - mean| > sigma*std exactly when
\* (n*im - s)^2 > sigma^2 * d2
SigmaFlags(st, sigma, fullsig) ==
    LET v  == st.active.val
        sd == IF fullsig
              THEN [p \in Pix |-> ApplyFunc(st.scalefunc, st.file[st.chdu][p])]
              ELSE [q \in DOMAIN v \ st.mask |->
                       ApplyFunc(st.scalefunc, v[q])]
        n  == Cardinality(DOMAIN sd)
        s  == SumOver(sd, DOMAIN sd)
        d2 == n * SumOver([p \in DOMAIN sd |-> sd[p] * sd[p]], DOMAIN sd) - s * s
    IN  {q \in DOMAIN v :
            (n * v[q] - s) * (n * v[q] - s) > sigma * sigma * d2}

clipSigma(st, sigma, fullsig, action) ==
    Clip(st, action, SigmaFlags(st, sigma, fullsig))

\* line 353: every value of the model is finite
clipInvalids(st, action) == Clip(st, action, {})

\* lines 372-381
ThresholdFlags(st, thresh, comp) ==
    LET v == st.active.val
    IN  CASE comp = "<"  -> {q \in DOMAIN v : v[q] < thresh}
          [] comp = ">"  -> {q \in DOMAIN v : v[q] > thresh}
          [] comp = ">=" -> {q \in DOMAIN v : v[q] >= thresh}
          [] comp = "<=" -> {q \in DOMAIN v : v[q] <= thresh}
          [] OTHER       -> {}

clipThreshold(st, thresh, action, comp) ==
    IF comp \notin {"<", ">", ">=", "<="}
    THEN [st |-> st, exc |-> "ValueError: unrecognized comp operator",
          ret |-> NoRet, flags |-> {}]
    ELSE Clip(st, action, ThresholdFlags(st, thresh, comp))

\* lines 397-405; offset is [kind |-> name or "value", c |-> the value]
OffsetOf_nop1(st, offset) ==
    CASE offset.kind \in {"gmin", "gminp1"} -> st.gstats.min
      [] offset.kind \in {"min", "minp1"} ->
             MinOf(st.active.val, DOMAIN st.active.val)
      [] OTHER -> offset.c

OffsetOf(st, offset) ==
    CASE offset.kind = "gmin"   -> st.gstats.min
      [] offset.kind = "gminp1" -> st.gstats.min + 1
      [] offset.kind = "min"    -> MinOf(st.active.val, DOMAIN st.active.val)
      [] offset.kind = "minp1"  -> MinOf(st.active.val, DOMAIN st.active.val) + 1
      [] OTHER                  -> offset.c

offsetData(st, offset) ==
    [st |-> MarkChanged(WriteActive(st,
                [q \in DOMAIN st.active.val |->
                    st.active.val[q] - OffsetOf(st, offset)])),
     exc |-> None, ret |-> NoRet, flags |-> {}]

\* ------------------------------------------------------------------ inputs
Coord(r) == (-Over) .. (r + Over)
AxisPairs(r) == Coord(r) \X Coord(r)

\* every box with bounds at most Over outside the image
AllBoxes ==
    {<<a[1], a[2], b[1], b[2]>> : a \in AxisPairs(XR), b \in AxisPairs(YR)}

\* centre and radius (xcen,ycen,rad)
AllCircles == Coord(XR) \X Coord(YR) \X (0 .. 1)

\* the ranges of the long runs: the whole image, a 2-tuple, a box with equal
\* bounds, a square box on the diagonal and one off it, a box that is not
\* square, a reversed one, one past the edge, and a centre with a radius
RangeArgs ==
    {NoRange, <<0, 1>>, <<0, 0, 0, 1>>, <<0, 1, 1, 2>>, <<0, XR, 0, 1>>,
     <<1, 0, 0, 1>>}
HduArgs == {NoHdu} \cup (0 .. NPlanes)

ScalingArgs ==
    {[f |-> "None", inv |-> None], [f |-> "sb", inv |-> None],
     [f |-> "bogus", inv |-> None], [f |-> "notcallable", inv |-> None],
     [f |-> "shift", inv |-> "unshift"], [f |-> "shift", inv |-> None]}

ReplActions ==
    {[kind |-> "const", c |-> 0], [kind |-> "noclipmedian", c |-> 0],
     [kind |-> "bogus", c |-> 0]}

LimitArgs == {<<25, 75>>, <<1, 2, 3>>}
SigmaArgs == {1}
ThreshArgs == {3}
CompArgs == {">=", "=="}
OffsetArgs == {[kind |-> "gmin", c |-> 0], [kind |-> "minp1", c |-> 0]}

\* the rasters of the files opened
Ramp(h) == [p \in Pix |-> 1 + h + p[1] + XR * p[2]]
InitFiles == {[h \in Planes |-> Ramp(h)]}
InitRanges == {NoRange}
InitScalings == {[f |-> "None", inv |-> None]}
\* the constructor passes its scaling argument on without an inverse
InitScalingsRange ==
    {[f |-> "None", inv |-> None], [f |-> "shift", inv |-> None]}

\* ---------------------------------------------------------------- __init__
\* lines 28-41 for a construction that completes: ihdu = 0
\* lines 28-32: the fields before setScaling is called
Blank(f, irange) ==
    [file |-> f, chdu |-> 0, gstats |-> << >>,
     rng |-> irange, scalefunc |-> None, invscalefunc |-> None,
     active |-> [shape |-> <<0, 0>>, val |-> << >>],
     abase |-> << >>, changed |-> FALSE, auto |-> FALSE, zpt |-> << >>,
     mask |-> {}, closure |-> << >>]

\* lines 34-41 after setScaling ended in r
Scaled(r) ==
    IF r.exc # None
    THEN [st |-> r.st, exc |-> r.exc]
    ELSE [st |-> [r.st EXCEPT !.gstats = GlobalStats(r.st.file, r.st)],
          exc |-> IF ~ HeaderHasBlank(0) THEN "KeyError" ELSE None]

Constructed(f, irange, scaling) ==
    Scaled(setScaling(Blank(f, irange), scaling))

\* ------------------------------------------------------- SmoothSplineModel
\* models/modbuiltins.py, lines 600-650. A data set is named by a number
\* (0: the arange data of the constructor); a spline is the arguments it
\* was constructed from by scipy's UnivariateSpline.
SplineDefaultS == 2
SplineDefaultDegree == 3

\* _customFit, lines 616-627, on the data xy with the weights w
SmoothSpline_customFit(o, xy, w) ==
    [o EXCEPT !.spline = [data |-> xy, s |-> o.s, k |-> o.degree, w |-> w],
              !.olds = o.s,
              !.oldd = o.degree,
              !.nfits = o.nfits + 1]

\* FunctionModel1D.fitData with savedata: the custom fit is preferred and
\* the data are kept; the fit returns (s, degree), the parameters in place
BaseFitData(o, xy, w) ==
    [SmoothSpline_customFit(o, xy, w) EXCEPT !.fitteddata = xy]

\* fitData, lines 629-642
SmoothSpline_fitData(o, xy, w) ==
    BaseFitData([o EXCEPT !.olds = None, !.oldd = None, !.ws = w], xy, w)

\* __init__, lines 609-614
SmoothSplineModel_init ==
    SmoothSpline_fitData(
        [s |-> SplineDefaultS, degree |-> SplineDefaultDegree,
         olds |-> None, oldd |-> None, ws |-> None, fitteddata |-> 0,
         spline |-> None, nfits |-> 0],
        0, None)

\* f(x, s, degree), lines 644-649, up to the evaluation of the spline
SmoothSpline_f_stale(o, sarg, degree) == o

SmoothSpline_f(o, sarg, degree) ==
    IF o.olds # sarg \/ o.oldd # degree
    THEN SmoothSpline_customFit(o, o.fitteddata, o.ws)
    ELSE o

InitOf(files, scalings) ==
    \E f \in files, irange \in InitRanges, scaling \in scalings :
        \E c \in {Constructed(f, irange, scaling)}, bx \in {RangeBox(irange)} :
            /\ c.exc = None
            /\ file = c.st.file
            /\ chdu = c.st.chdu
            /\ global_stats = c.st.gstats
            /\ rng = c.st.rng
            /\ scalefunc = c.st.scalefunc
            /\ invscalefunc = c.st.invscalefunc
            /\ active = c.st.active
            /\ abase = c.st.abase
            /\ changed = c.st.changed
            /\ applyChangesOnActivate = c.st.auto
            /\ zpt = c.st.zpt
            /\ amask = c.st.mask
            /\ closure = c.st.closure
            /\ openfiles = {}
            /\ splinemodel = SmoothSplineModel_init
            /\ bands = {}
            /\ groupdict = << >>
            /\ lastOp = "init"
            /\ lastArg = irange
            /\ exc = None
            /\ committed = FALSE
            /\ warned = FALSE
            /\ switched = FALSE
            /\ actbox = <<bx.x[1], bx.x[2], bx.y[1], bx.y[2]>>
            /\ seqData = << >>
            /\ ret = NoRet
            /\ flags = {}
            /\ nops = 0

InitWith(scalings) == InitOf(InitFiles, scalings)

Init == InitWith(InitScalings)

\* ----------------------------------------------------------------- actions
\* a run ends at the first exception that reaches the caller, or after
\* MaxOps calls
Running == exc = None /\ nops < MaxOps

\* the fields after a call that ended in st
Fields(st) ==
    /\ file' = st.file
    /\ chdu' = st.chdu
    /\ global_stats' = st.gstats
    /\ rng' = st.rng
    /\ scalefunc' = st.scalefunc
    /\ invscalefunc' = st.invscalefunc
    /\ active' = st.active
    /\ abase' = st.abase
    /\ changed' = st.changed
    /\ applyChangesOnActivate' = st.auto
    /\ zpt' = st.zpt
    /\ amask' = st.mask
    /\ closure' = st.closure
    /\ openfiles' = openfiles
    /\ UNCHANGED modvars

\* what a call leaves in the history
History(op, arg, e, r) ==
    /\ lastOp' = op
    /\ lastArg' = arg
    /\ exc' = e
    /\ committed' = FALSE
    /\ warned' = FALSE
    /\ switched' = FALSE
    /\ seqData' = << >>
    /\ ret' = r
    /\ flags' = {}
    /\ nops' = nops + 1

\* activateRange ended in r
Activated(range, r) ==
    /\ Fields(r.st)
    /\ lastOp' = "activateRange"
    /\ lastArg' = range
    /\ exc' = r.exc
    /\ committed' = r.committed
    /\ warned' = r.warned
    /\ switched' = r.switched
    /\ actbox' = IF r.exc = None THEN r.box ELSE actbox
    /\ seqData' = IF r.exc = None /\ ~ r.committed THEN <<file>> ELSE << >>
    /\ ret' = NoRet
    /\ flags' = {}
    /\ nops' = nops + 1

ActivateRange ==
    /\ Running
    /\ \E range \in RangeArgs, hdu \in HduArgs :
        Activated(range, activateRange(Cur, range, hdu))

\* the hdu property setter, lines 655-657
SetHdu ==
    /\ Running
    /\ \E value \in 0 .. NPlanes :
        Activated(rng, activateRange(Cur, rng, value))

ApplyChanges ==
    LET r == applyChanges(Cur)
    IN  /\ Running
        /\ Fields(r.st)
        /\ lastOp' = "applyChanges"
        /\ lastArg' = << >>
        /\ exc' = r.exc
        /\ committed' = (r.exc = None)
        /\ warned' = FALSE
        /\ switched' = FALSE
        /\ seqData' = << >>
        /\ ret' = NoRet
        /\ flags' = {}
        /\ nops' = nops + 1
        /\ UNCHANGED actbox

SetScaling ==
    \E arg \in ScalingArgs :
        LET r == setScaling(Cur, arg)
        IN  /\ Running
            /\ Fields(r.st)
            /\ lastOp' = "setScaling"
            /\ lastArg' = <<arg.f, arg.inv>>
            /\ exc' = r.exc
            /\ committed' = r.committed
            /\ warned' = r.warned
            /\ switched' = FALSE
            /\ seqData' = << >>
            /\ ret' = NoRet
            /\ flags' = {}
            /\ nops' = nops + 1
            /\ UNCHANGED actbox

\* a clip or an offset that ended in r
Edited(op, arg, r) ==
    /\ Running
    /\ Fields(r.st)
    /\ lastOp' = op
    /\ lastArg' = arg
    /\ exc' = r.exc
    /\ committed' = FALSE
    /\ warned' = FALSE
    /\ switched' = FALSE
    /\ seqData' = << >>
    /\ ret' = r.ret
    /\ flags' = r.flags
    /\ nops' = nops + 1
    /\ UNCHANGED actbox

ClipOutliers ==
    \E limits \in LimitArgs, action \in ReplActions :
        Edited("clipOutliers", <<action.kind, limits, TRUE>>,
               clipOutliers(Cur, limits, TRUE, action))

ClipSigma ==
    \E sigma \in SigmaArgs, action \in ReplActions :
        Edited("clipSigma", <<action.kind, sigma, TRUE>>,
               clipSigma(Cur, sigma, TRUE, action))

ClipInvalids ==
    \E action \in ReplActions :
        Edited("clipInvalids", <<action.kind>>, clipInvalids(Cur, action))

ClipThreshold ==
    \E thresh \in ThreshArgs, action \in ReplActions, comp \in CompArgs :
        Edited("clipThreshold", <<action.kind, thresh, comp>>,
               clipThreshold(Cur, thresh, action, comp))

OffsetData ==
    \E offset \in OffsetArgs :
        Edited("offsetData", <<offset.kind>>, offsetData(Cur, offset))

\* the caller assigns the attribute applyChangesOnActivate
SetApplyChangesOnActivate ==
    \E b \in BOOLEAN :
        /\ Running
        /\ b # applyChangesOnActivate
        /\ applyChangesOnActivate' = b
        /\ lastOp' = "applyChangesOnActivate"
        /\ lastArg' = << >>
        /\ exc' = None
        /\ committed' = FALSE
        /\ warned' = FALSE
        /\ switched' = FALSE
        /\ seqData' = << >>
        /\ ret' = NoRet
        /\ flags' = {}
        /\ nops' = nops + 1
        /\ UNCHANGED <<file, chdu, global_stats, rng, scalefunc,
                       invscalefunc, active, abase, changed, zpt, amask,
                       closure, openfiles, modvars, actbox>>

\* the zeropoint property setter, lines 630-633, given a scalar
SetZeropoint ==
    /\ Running
    /\ zpt = << >>
    /\ zpt' = <<ZptVal>>
    /\ lastOp' = "zeropoint"
    /\ lastArg' = << >>
    /\ exc' = None
    /\ committed' = FALSE
    /\ warned' = FALSE
    /\ switched' = FALSE
    /\ seqData' = << >>
    /\ ret' = NoRet
    /\ flags' = {}
    /\ nops' = nops + 1
    /\ UNCHANGED <<file, chdu, global_stats, rng, scalefunc,
                   invscalefunc, active, abase, changed,
                   applyChangesOnActivate, amask, closure, openfiles,
                   modvars, actbox>>

Next ==
    \/ ActivateRange
    \/ SetHdu
    \/ ApplyChanges
    \/ SetScaling
    \/ ClipOutliers
    \/ ClipSigma
    \/ ClipInvalids
    \/ ClipThreshold
    \/ OffsetData
    \/ SetApplyChangesOnActivate
    \/ SetZeropoint

Spec == Init /\ [][Next]_vars

\* the range property setter (lines 648-649) given any range of the bounds
AllRanges == {NoRange, <<0, 1>>} \cup AllBoxes \cup AllCircles

\* assigned while the whole image is active
SetRange ==
    /\ Running
    /\ rng = NoRange
    /\ \E value \in AllRanges :
        Activated(value, activateRange(Cur, value, NoHdu))

\* images constructed under either scaling, then assigned ranges
InitRange == InitWith(InitScalingsRange)

SpecRange == InitRange /\ [][SetRange]_vars

\* ------------------------------------------------- the built-in scalings
\* The lambdas of setScalingLog, -SurfaceBrightness, -Exp, -Power and
\* -ASinh over the integers: a logarithm or a root is taken where it is
\* exact, and a value where it is not lies outside the values modelled
\* (dom is FALSE).  A result is [exc, dom, v].
MaxExp == 3      \* exponents of the exact powers lie in 0 .. MaxExp

RECURSIVE Pow(_, _)
Pow(b, k) == IF k <= 0 THEN 1 ELSE b * Pow(b, k - 1)

Exact(v) == [exc |-> None, dom |-> TRUE, v |-> v]
Inexact == [exc |-> None, dom |-> FALSE, v |-> 0]
Raised(e) == [exc |-> e, dom |-> TRUE, v |-> 0]

\* log of y to base b
LogOf(b, y) ==
    IF \E k \in 0 .. MaxExp : Pow(b, k) = y
    THEN Exact(CHOOSE k \in 0 .. MaxExp : Pow(b, k) = y)
    ELSE Inexact

\* b ** k
PowOf(b, k) == IF k \in 0 .. MaxExp THEN Exact(Pow(b, k)) ELSE Inexact

\* n / d
DivOf(n, d) ==
    IF d = 0 THEN Raised("ZeroDivisionError")
    ELSE IF d < 0
    THEN (IF (-n) % (-d) = 0 THEN Exact((-n) \div (-d)) ELSE Inexact)
    ELSE IF n % d = 0 THEN Exact(n \div d) ELSE Inexact

\* y ** (1/p)
RootOf(y, p) ==
    IF \E r \in 0 .. y : Pow(r, p) = y
    THEN Exact(CHOOSE r \in 0 .. y : Pow(r, p) = y)
    ELSE Inexact

\* g applied to the value of a result that has one
Then(r, gv) == IF r.exc # None \/ ~ r.dom THEN r ELSE gv

\* lines 124-132: base 10 and any other base bind logfunc; base e binds
\* the name logfun instead, so the lambdas find logfunc unbound
LogFunc(m, y) ==
    IF m.bkind = "e"
    THEN Raised("NameError: logfunc")
    ELSE LogOf(m.base, y)

\* lines 134-149 with xmin, xmax the cached minimum and maximum; the
\* affine map is (x-xmin)*range+lower with range = (upper-lower)/(xmax-xmin)
LogArg(m, xmin, xmax, x) ==
    IF m.policy = "nolower" THEN Exact(x)
    ELSE IF m.policy = "noupper"
    THEN Exact(x - xmin + Pow(m.base, m.lower))
    ELSE DivOf((x - xmin) * (Pow(m.base, m.upper) - Pow(m.base, m.lower))
                   + Pow(m.base, m.lower) * (xmax - xmin),
               xmax - xmin)

LogForwardAt(m, a) == LogFunc(m, a.v)

LogForward(m, xmin, xmax, x) ==
    Then(LogArg(m, xmin, xmax, x), LogForwardAt(m, LogArg(m, xmin, xmax, x)))

LogInverseAt(m, xmin, xmax, bx) ==
    IF m.policy = "nolower" THEN bx
    ELSE IF m.policy = "noupper"
    THEN Exact(bx.v + xmin - Pow(m.base, m.lower))
    ELSE Then(DivOf((bx.v - Pow(m.base, m.lower)) * (xmax - xmin),
                    Pow(m.base, m.upper) - Pow(m.base, m.lower)),
              Exact(DivOf((bx.v - Pow(m.base, m.lower)) * (xmax - xmin),
                          Pow(m.base, m.upper) - Pow(m.base, m.lower)).v
                    + xmin))

LogInverse(m, xmin, xmax, y) ==
    Then(PowOf(m.base, y), LogInverseAt(m, xmin, xmax, PowOf(m.base, y)))

\* lines 165-169 with surface brightnesses kept doubled, the pixel area
\* 10**m.area and the zero point zp: offset = 2.5*log10(A) - zpt
SbOffset2(m, zp) == 5 * m.area - 2 * zp

SbForwardAt(m, zp, lg) == Exact(SbOffset2(m, zp) - 5 * lg.v)

SbForward(m, zp, x) == Then(LogOf(10, x), SbForwardAt(m, zp, LogOf(10, x)))

SbInverseAt(e) == PowOf(10, e.v)

SbInverse(m, zp, y2) ==
    Then(DivOf(y2 - SbOffset2(m, zp), -5),
         SbInverseAt(DivOf(y2 - SbOffset2(m, zp), -5)))

\* np.arcsinh and np.sinh, exact on the integers at 0 only
ASinhOf(x) == IF x = 0 THEN Exact(0) ELSE Inexact

\* _scalefunc(x) after the setter of mode m
Forward(m, st, x) ==
    CASE m.name = "linear" -> Exact(x)
      [] m.name = "log"    -> LogForward(m, st.gstats.min, st.gstats.max, x)
      [] m.name = "sb"     -> SbForward(m, ZptVal, x)
      [] m.name = "exp"    -> PowOf(m.base, x)
      [] m.name = "power"  -> Exact(Pow(x, m.power))
      [] OTHER             -> ASinhOf(x)

\* _invscalefunc(y) after the setter of mode m
Inverse(m, st, y) ==
    CASE m.name = "linear" -> Exact(y)
      [] m.name = "log"    -> LogInverse(m, st.gstats.min, st.gstats.max, y)
      [] m.name = "sb"     -> SbInverse(m, ZptVal, y)
      [] m.name = "exp"    -> LogOf(m.base, y)
      [] m.name = "power"  -> RootOf(y, m.power)
      [] OTHER             -> ASinhOf(y)

InverseOf(m, st, f) == Then(f, Inverse(m, st, f.v))

RoundTrip(m, st, x) == InverseOf(m, st, Forward(m, st, x))

\* the modes and their parameters
Mode(name, policy, bkind, base, lower, upper, power, area) ==
    [name |-> name, policy |-> policy, bkind |-> bkind, base |-> base,
     lower |-> lower, upper |-> upper, power |-> power, area |-> area]

\* the bases: 10.0, e (its powers are never taken: the forward function
\* raises first) and another
LogBases == {<<"ten", 10>>, <<"e", 3>>, <<"other", 2>>}
LogModes ==
    {Mode("log", pol, b[1], b[2], lo, lo + 1, 0, 0) :
        pol \in {"both", "noupper", "nolower"}, b \in LogBases, lo \in 0 .. 1}
OtherModes ==
    {Mode("linear", "", "", 0, 0, 0, 0, 0),
     Mode("exp", "", "ten", 10, 0, 0, 0, 0),
     Mode("exp", "", "other", 2, 0, 0, 0, 0),
     Mode("power", "", "", 0, 0, 0, 2, 0),
     Mode("asinh", "", "", 0, 0, 0, 0, 0),
     Mode("sb", "", "", 0, 0, 0, 0, 0),
     Mode("sb", "", "", 0, 0, 0, 0, 1)}
BuiltinModes == LogModes \cup OtherModes
ScaleValues == 0 .. (XR * YR + NPlanes + 8)

\* the forward function of mode m, then its inverse, applied to x
ScalingRoundTrip ==
    \E m \in BuiltinModes, x \in ScaleValues :
        \E r \in {RoundTrip(m, Cur, x)} :
            /\ Running
            /\ r.dom
            /\ lastOp' = "roundtrip"
            /\ lastArg' = <<m, x>>
            /\ exc' = r.exc
            /\ ret' = IF r.exc = None
                      THEN [kind |-> "number", v |-> <<r.v>>]
                      ELSE NoRet
            /\ committed' = FALSE
            /\ warned' = FALSE
            /\ switched' = FALSE
            /\ seqData' = << >>
            /\ flags' = {}
            /\ nops' = nops + 1
            /\ UNCHANGED <<codevars, openfiles, modvars, actbox>>

SpecScale == InitRange /\ [][ScalingRoundTrip]_vars

\* clipSigma with either statistics and offsetData with every kind of
\* offset, on images constructed under either scaling from a raster that is
\* a ramp or all zero, with the whole image active
Flat == [p \in Pix |-> 0]
EditFiles == InitFiles \cup {[h \in Planes |-> IF h = 0 THEN Flat ELSE Ramp(h)]}
OffsetKinds ==
    {[kind |-> "gmin", c |-> 0], [kind |-> "gminp1", c |-> 0],
     [kind |-> "min", c |-> 0], [kind |-> "minp1", c |-> 0],
     [kind |-> "value", c |-> 2]}

SigmaClip ==
    \E sigma \in SigmaArgs, fullsig \in BOOLEAN :
        Edited("clipSigma", <<"const", sigma, fullsig>>,
               clipSigma(Cur, sigma, fullsig, [kind |-> "const", c |-> 0]))

OffsetAny ==
    \E offset \in OffsetKinds :
        Edited("offsetData", <<offset.kind>>, offsetData(Cur, offset))

NextEdit == SigmaClip \/ OffsetAny

InitEdit == InitOf(EditFiles, InitScalingsRange)

SpecEdit == InitEdit /\ [][NextEdit]_vars

\* the clips called with action='mask', on images constructed under either
\* scaling with the whole image active; no other call follows a masking
MaskAction == [kind |-> "mask", c |-> 0]
MaskComps == {"<", ">", ">=", "<="}
MaskThreshs == {2, 3}

MaskOutliers ==
    \E limits \in {<<25, 75>>}, percentage \in BOOLEAN :
        Edited("clipOutliers", <<"mask", limits, percentage>>,
               clipOutliers(Cur, limits, percentage, MaskAction))

MaskSigma ==
    \E sigma \in SigmaArgs, fullsig \in BOOLEAN :
        Edited("clipSigma", <<"mask", sigma, fullsig>>,
               clipSigma(Cur, sigma, fullsig, MaskAction))

MaskInvalids ==
    Edited("clipInvalids", <<"mask">>, clipInvalids(Cur, MaskAction))

MaskThreshold ==
    \E thresh \in MaskThreshs, comp \in MaskComps :
        Edited("clipThreshold", <<"mask", thresh, comp>>,
               clipThreshold(Cur, thresh, MaskAction, comp))

NextMask == MaskOutliers \/ MaskSigma \/ MaskInvalids \/ MaskThreshold

SpecMask == InitRange /\ [][NextMask]_vars

\* ------------------------------------------- the built-in scalings by name
\* CCDImage(fn, irange, scaling) with scaling one of the names
ConstructRanges == {NoRange, <<0, 1, 0, 1>>}

Construct ==
    \E f \in InitFiles, irange \in ConstructRanges,
       name \in NamedScalings \cup {"linear"} :
        \E c \in {Constructed(f, irange, [f |-> name, inv |-> None])},
           bx \in {RangeBox(irange)} :
            /\ Running
            /\ Fields(c.st)
            /\ History("construct", <<name, irange>>, c.exc, NoRet)
            /\ actbox' = <<bx.x[1], bx.x[2], bx.y[1], bx.y[2]>>

\* setScaling(name) on the object in place
SetScalingNamed ==
    \E name \in NamedScalings \cup {"linear"} :
        \E r \in {setScaling(Cur, [f |-> name, inv |-> None])} :
            /\ Running
            /\ Fields(r.st)
            /\ lastOp' = "setScaling"
            /\ lastArg' = <<name, None>>
            /\ exc' = r.exc
            /\ committed' = r.committed
            /\ warned' = r.warned
            /\ switched' = FALSE
            /\ seqData' = << >>
            /\ ret' = NoRet
            /\ flags' = {}
            /\ nops' = nops + 1
            /\ UNCHANGED actbox

NextNamed == Construct \/ SetScalingNamed \/ SetHdu

SpecNamed == Init /\ [][NextNamed]_vars

\* ------------------------------------------- mosaic_objects, kcorrect_images
\* the module-level functions that construct a CCDImage per file name. The
\* constructor opens the file (line 22); close() and __del__ close it (lines
\* 46-51). __del__ runs when the object is reclaimed, which cannot precede
\* the exit of a call that raises: the traceback holds the frame and its
\* locals.
ImageSeqs(S) == UNION {[1 .. n -> S] : n \in 1 .. MaxImages}
NoScaling == [f |-> "None", inv |-> None]

\* the least position of es that holds an exception, or 0
FirstRaise(es) ==
    IF \E i \in DOMAIN es : es[i] # None
    THEN CHOOSE i \in DOMAIN es :
             es[i] # None /\ \A j \in 1 .. (i - 1) : es[j] = None
    ELSE 0

\* the history of a call on no CCDImage of the caller's
Returned(op, arg, e, r) ==
    History(op, arg, e, r) /\ UNCHANGED <<codevars, modvars, actbox>>

Called(op, arg, e) == Returned(op, arg, e, NoRet)

\* a call that touches no CCDImage and opens no file
Pure(op, arg, r) == Returned(op, arg, None, r) /\ UNCHANGED openfiles

\* lines 737-742 for the image constructed as c and its target (x,y,r)
ImageShown(c, target) ==
    IF c.exc # None THEN c.exc ELSE activateRange(c.st, target, NoHdu).exc

MosaicImage(f, target) == ImageShown(Constructed(f, NoRange, NoScaling), target)

\* targets (x,y,r): radius 0 selects a size 0 range
MosaicTargets == {<<0, 0, 0>>, <<0, 0, 1>>}

\* lines 732-754 with image k the first to raise (0: none does): im.close()
\* is the last statement of the loop body, and the finally clause only
\* restores the interactive mode
MosaicEnded(ts, es, k) ==
    /\ openfiles' = openfiles \cup (IF k = 0 THEN {} ELSE {<<nops + 1, k>>})
    /\ Called("mosaic_objects", ts, IF k = 0 THEN None ELSE es[k])

\* mosaic_objects(xcens,ycens,radii,images) with one target per image file
MosaicObjects ==
    \E f \in InitFiles, ts \in ImageSeqs(MosaicTargets) :
        \E es \in {[i \in DOMAIN ts |-> MosaicImage(f, ts[i])]} :
            /\ Running
            /\ MosaicEnded(ts, es, FirstRaise(es))

\* lines 819-822 for the first image, after offsetData: activateRange(None)
\* then setScaling('sb')
SbOf(a) ==
    IF a.exc # None THEN a.exc
    ELSE setScaling(a.st, [f |-> "sb", inv |-> None]).exc

\* lines 811-822 for the first image constructed as c; offsetData(None)
\* subtracts None from the array
FirstBand(c, zeropoints, offset) ==
    IF c.exc # None THEN c.exc
    ELSE IF offset = "None"
    THEN "TypeError: unsupported operand type(s) for -="
    ELSE SbOf(activateRange(
                  offsetData([c.st EXCEPT !.zpt = IF zeropoints
                                                   THEN <<ZptVal>>
                                                   ELSE << >>],
                             [kind |-> offset, c |-> 0]).st,
                  NoRange, NoHdu))

\* lines 791-841: images is the kind of each argument, a file name ("str")
\* or something that is neither a name nor a CCDImage ("other"); the result
\* is how the call ended and the positions of the files it opened. No
\* statement of the function closes a file. props is the zeropoint and the
\* pixelscale every image has once lines 808-814 have run.
PixelAreaArgs == {<< >>, <<4>>}

\* lines 811-814: the loop runs over the empty list when pixelareas is None
\* and is skipped when it is not
PixelScaleGiven(pixelareas) == << >>

kcorrect_images(f, images, nbands, zeropoints, pixelareas, offset) ==
    IF Len(images) # nbands
    THEN [exc |-> "ValueError: images and bands don't match!", opened |-> {},
          props |-> NoRet]
    ELSE IF FirstRaise([i \in DOMAIN images |->
                           IF images[i] = "other" THEN "ValueError" ELSE None]) # 0
    THEN [exc |-> "ValueError: image is not a CCDImage or string",
          opened |-> 1 .. (FirstRaise([i \in DOMAIN images |->
                               IF images[i] = "other" THEN "ValueError"
                               ELSE None]) - 1),
          props |-> NoRet]
    ELSE [exc |-> FirstBand(Constructed(f, NoRange, NoScaling),
                            zeropoints, offset),
          opened |-> DOMAIN images,
          props |-> [kind |-> "images",
                     v |-> <<IF zeropoints THEN <<ZptVal>> ELSE << >>,
                             PixelScaleGiven(pixelareas)>>]]

KcorrectImages ==
    \E f \in InitFiles, images \in ImageSeqs({"str", "other"}),
       nbands \in 1 .. MaxImages, zeropoints \in BOOLEAN,
       pixelareas \in PixelAreaArgs, offset \in {"None", "minp1"} :
        \E r \in {kcorrect_images(f, images, nbands, zeropoints, pixelareas,
                                 offset)} :
            /\ Running
            /\ openfiles' = openfiles \cup {<<nops + 1, i>> : i \in r.opened}
            /\ Returned("kcorrect_images",
                        <<images, nbands, zeropoints, offset, pixelareas>>,
                        r.exc, r.props)

NextFiles == MosaicObjects \/ KcorrectImages

SpecFiles == InitRange /\ [][NextFiles]_vars

\* ------------------------------------------------------------- LinearModel
\* models/modbuiltins.py. Data are integer points with distinct abscissas,
\* a function x |-> y; fitted values are rationals <<num, den>> and a
\* standard deviation is held as its square.
NaN == <<0, 0>>

\* the points of y = m*x + b over X, the one at px (if any) raised by 1
Slopes == -1 .. 2
Intercepts == 0 .. 1
LineData(m, b, X, px) == [x \in X |-> m * x + b + (IF x = px THEN 1 ELSE 0)]
FitData ==
    {LineData(m, b, X, px) :
        m \in Slopes, b \in Intercepts,
        X \in SUBSET (0 .. MaxX) \ {{}}, px \in {-1, MaxX}}

\* (y-m*x-b).std(ddof=2) squared, from the residuals times delta
ResidualVar(dr, N, delta) ==
    IF N = 2 THEN NaN
    ELSE Rat(N * SumOver([x \in DOMAIN dr |-> dr[x] * dr[x]], DOMAIN dr)
                 - SumOver(dr, DOMAIN dr) * SumOver(dr, DOMAIN dr),
             N * (N - 2) * delta * delta)

\* the slope taken as if the line passed through the origin
LinearSolve_plain(d, N, sxsq, sx, sy, sxy, delta) ==
    IF delta = 0
    THEN <<NaN, NaN, NaN>>
    ELSE <<Rat(sxy, sxsq),
           Rat(sxsq * sy - sx * sxy, delta),
           ResidualVar([x \in DOMAIN d |->
                           delta * d[x] - (N * sxy - sx * sy) * x
                               - (sxsq * sy - sx * sxy)],
                       N, delta)>>

\* lines 75-86 with the sums computed: m, b and dy
LinearSolve(d, N, sxsq, sx, sy, sxy, delta) ==
    IF delta = 0
    THEN <<NaN, NaN, NaN>>
    ELSE <<Rat(N * sxy - sx * sy, delta),
           Rat(sxsq * sy - sx * sxy, delta),
           ResidualVar([x \in DOMAIN d |->
                           delta * d[x] - (N * sxy - sx * sy) * x
                               - (sxsq * sy - sx * sxy)],
                       N, delta)>>

\* LinearModel._customFit(x,y) with no fixed parameters and no weights
LinearModel_customFit(d) ==
    LinearSolve(d, Cardinality(DOMAIN d),
                SumOver([x \in DOMAIN d |-> x * x], DOMAIN d),
                SumOver([x \in DOMAIN d |-> x], DOMAIN d),
                SumOver(d, DOMAIN d),
                SumOver([x \in DOMAIN d |-> x * d[x]], DOMAIN d),
                Cardinality(DOMAIN d)
                    * SumOver([x \in DOMAIN d |-> x * x], DOMAIN d)
                  - SumOver([x \in DOMAIN d |-> x], DOMAIN d)
                    * SumOver([x \in DOMAIN d |-> x], DOMAIN d))

LinearFit ==
    \E d \in FitData :
        /\ Running
        /\ Pure("LinearModel.fitData", <<d>>,
                [kind |-> "fit", v |-> LinearModel_customFit(d)])

\* LinearModel.integrate(lower,upper), lines 119-121, with parameters m, b
LinearModel_integrate(m, b, lower, upper) ==
    Rat(m * upper * upper + 2 * b * upper - m * lower * lower + 2 * b * lower,
        2)

LinearIntegrate ==
    \E m \in Slopes, b \in Intercepts, lower \in 0 .. MaxX, upper \in 0 .. MaxX :
        /\ Running
        /\ Pure("LinearModel.integrate", <<m, b, lower, upper>>,
                [kind |-> "rational",
                 v |-> <<LinearModel_integrate(m, b, lower, upper)>>])

NextLinear == LinearFit \/ LinearIntegrate

SpecLinear == Init /\ [][NextLinear]_vars

\* ----------------------------------------------------------------- phot.py
\* distance_modulus(x, intype, dx=None, autocosmo), lines 998-1045, for
\* redshifts given in hundredths. np.any(z) is a boolean, 1 or 0 in the
\* comparison with 0.1; the result is the calculation chosen and whether
\* the call warned.
ZCents == {0, 5, 11}
AnyOf(z) == IF \E i \in DOMAIN z : z[i] # 0 THEN 1 ELSE 0

distance_modulus(z, intype, autocosmo) ==
    IF intype # "redshift" /\ intype # "distance"
    THEN [exc |-> "ValueError: unrecognized intype",
          ret |-> NoRet]
    ELSE IF autocosmo # "False" /\ AnyOf(z) * 10 > 1
    THEN IF autocosmo = "warn"
         THEN [exc |-> None, ret |-> [kind |-> "basic", v |-> <<"warn">>]]
         ELSE [exc |-> None, ret |-> [kind |-> "cosmo", v |-> << >>]]
    ELSE [exc |-> None, ret |-> [kind |-> "basic", v |-> << >>]]

DistanceModulus ==
    \E z \in ImageSeqs(ZCents), intype \in {"redshift", "bogus"},
       autocosmo \in {"True", "False", "warn"} :
        \E r \in {distance_modulus(z, intype, autocosmo)} :
            /\ Running
            /\ Returned("distance_modulus", <<z, intype, autocosmo>>,
                        r.exc, r.ret)
            /\ UNCHANGED openfiles

SpecPhot == Init /\ [][DistanceModulus]_vars

\* _BandRegistry, lines 1280-1327. The argument of register maps the names
\* of `names` to Band objects, except those of `bad`; `done` are the names
\* the iteration reaches before the first that is not a Band
BandNames == {"U", "B"}
GroupArgs == {<<"None">>, <<"str", {"g1"}>>, <<"seq", {"g1", "g2"}>>,
              <<"other">>}

\* lines 1316-1323, the bands registered
Grouped(names, groupname) ==
    IF groupname[1] \in {"str", "seq"}
    THEN [g \in DOMAIN groupdict \cup groupname[2] |->
             IF g \in groupname[2] THEN names ELSE groupdict[g]]
    ELSE groupdict

Register ==
    \E names \in SUBSET BandNames \ {{}}, bad \in SUBSET BandNames,
       groupname \in GroupArgs :
        \E done \in SUBSET (names \ bad) :
            /\ Running
            /\ bad \subseteq names
            /\ bad = {} => done = names
            /\ bands' = bands \cup done
            /\ groupdict' = IF bad = {} THEN Grouped(names, groupname)
                            ELSE groupdict
            /\ History("register", <<names, bad, groupname>>,
                       IF bad # {}
                       THEN "ValueError: an object in the band set is not a Band"
                       ELSE IF groupname[1] = "other"
                       THEN "ValueError: unrecognized group name type"
                       ELSE None,
                       NoRet)
            /\ UNCHANGED <<codevars, actbox, openfiles, splinemodel>>

\* __delitem__, lines 1291-1295: dict.__delitem__ is called on the key
\* alone, without the registry
DelItem ==
    \E key \in BandNames :
        /\ Running
        /\ History("delitem", <<key>>,
                   "TypeError: descriptor '__delitem__' requires a 'dict' object",
                   NoRet)
        /\ UNCHANGED <<codevars, actbox, openfiles, modvars>>

NextBands == Register \/ DelItem

SpecBands == Init /\ [][NextBands]_vars

\* ------------------------------------------- SmoothSplineModel, operations
SplineData == {1, 2}
SplineWeights == {None, "w"}

\* a call that only the spline model takes part in
SplineStep(op, arg, o, r) ==
    /\ Running
    /\ splinemodel' = o
    /\ History(op, arg, None, r)
    /\ UNCHANGED <<codevars, actbox, openfiles, bands, groupdict>>

\* an assignment to the parameter s or degree
SplineSetPar ==
    \/ \E v \in {1, 2} :
           SplineStep("SmoothSplineModel.s", <<v>>,
                      [splinemodel EXCEPT !.s = v], NoRet)
    \/ \E v \in {1, 3} :
           SplineStep("SmoothSplineModel.degree", <<v>>,
                      [splinemodel EXCEPT !.degree = v], NoRet)

SplineFitData ==
    \E xy \in SplineData, w \in SplineWeights :
        SplineStep("SmoothSplineModel.fitData", <<xy, w>>,
                   SmoothSpline_fitData(splinemodel, xy, w), NoRet)

\* the value the spline takes at x, as the spline and x
SplineValue(o, x) == [kind |-> "spline", v |-> <<o.spline, x>>]

\* the model evaluated at x: f(x, s, degree) on the parameters in place
SplineCall ==
    \E x \in 0 .. 1 :
        \E o \in {SmoothSpline_f(splinemodel, splinemodel.s,
                                 splinemodel.degree)} :
            SplineStep("SmoothSplineModel.call", <<x>>, o, SplineValue(o, x))

NextSpline == SplineSetPar \/ SplineFitData \/ SplineCall

SpecSpline == Init /\ [][NextSpline]_vars

\* ------------------------------------------------------------------ claims
EditOps == {"clipOutliers", "clipSigma", "clipInvalids", "clipThreshold",
            "offsetData"}
RangeErrors == {"ValueError: Unregonized form for range",
                "ValueError: tried to activate size 0 range"}

\* C1: activateRange, no edit, then applyChanges under a scaling that has an
\* inverse leaves every pixel of every raster as it was before the
\* activateRange.
C1_RoundTrip ==
    [][(lastOp' = "applyChanges" /\ seqData # << >> /\ invscalefunc # None)
          => file' = seqData[1]]_vars

\* the pixel of the view that lies over raster pixel p
OverPix(p) == <<p[1] - actbox[1], p[2] - actbox[3]>>
InActBox(p) ==
    /\ actbox[1] <= p[1] /\ p[1] < actbox[2]
    /\ actbox[3] <= p[2] /\ p[2] < actbox[4]

\* C2: applyChanges on an edited view under a scaling that is not the
\* identity and has an inverse completes, sets every raster pixel inside the
\* active box to the inverse of the view's value over it, and changes no
\* pixel outside the box.
C2_CommitWritesBox ==
    [][(lastOp' = "applyChanges" /\ changed
            /\ invscalefunc # None /\ invscalefunc # scalefunc)
          => /\ exc' = None
             /\ \A p \in Pix :
                   file'[chdu][p] =
                       IF InActBox(p)
                       THEN ApplyFunc(invscalefunc, active.val[OverPix(p)])
                       ELSE file[chdu][p]]_vars

\* C3: applyChanges called while the scaling has no inverse raises and
\* changes neither the raster, the view, the cached statistics nor the
\* dirty flag.
C3_NoInverseRaises ==
    [][(lastOp' = "applyChanges" /\ invscalefunc = None)
          => /\ exc' # None
             /\ UNCHANGED <<file, active, global_stats, changed>>]_vars

C3_Witness ==
    /\ lastOp = "applyChanges"
    /\ exc = "Exception: No inverse function available"
    /\ invscalefunc = None
    /\ changed

\* C4: after every activateRange that completes the dirty flag is false.
C4_CleanAfterActivate ==
    (lastOp = "activateRange" /\ exc = None) => ~ changed

\* C5: the dirty flag is true after every clip or offset that completes, and
\* it goes from true to false only in a step in which applyChanges completes.
C5_DirtyFlag ==
    [][/\ (lastOp' \in EditOps /\ exc' = None) => changed'
       /\ (changed /\ ~ changed') => committed']_vars

C5_Witness ==
    /\ lastOp = "activateRange"
    /\ committed
    /\ ~ changed
    /\ nops >= 3

\* the statistics of the whole raster of the selected plane
RasterStats ==
    [median |-> MedianOf(file[chdu], Pix), mean |-> MeanOf(file[chdu], Pix),
     std |-> VarOf(file[chdu], Pix), min |-> MinOf(file[chdu], Pix),
     max |-> MaxOf(file[chdu], Pix)]

\* C6: after construction, after every plane switch that completes and after
\* every applyChanges that completes, the cached statistics are those of the
\* whole raster of the selected plane.
C6_StatsOfRaster ==
    (\/ lastOp = "init"
     \/ (lastOp = "activateRange" /\ exc = None /\ switched)
     \/ (lastOp = "applyChanges" /\ exc = None))
        => global_stats = RasterStats

C6_Witness ==
    /\ lastOp = "applyChanges"
    /\ exc = None
    /\ scalefunc = "shift"
    /\ rng = <<0, 1, 1, 2>>
    /\ changed = FALSE
    /\ nops >= 4

\* C7: an activateRange that raises because of its range leaves the plane
\* selection, the cached statistics, the stored range, the scaling, the
\* view, the dirty flag and the raster as they were.
C7_RangeErrorNoEffect ==
    [][(lastOp' = "activateRange" /\ exc' \in RangeErrors)
          => UNCHANGED <<chdu, global_stats, rng, scalefunc, invscalefunc,
                         active, changed, file>>]_vars

\* C8: setScaling with an unknown string, a forward that is not callable, or
\* 'sb' without zero point or pixel scale raises and leaves the scaling pair,
\* the stored range and the view as they were.
C8_BadScalingNoEffect ==
    [][(lastOp' = "setScaling"
            /\ lastArg'[1] \in {"bogus", "notcallable", "sb"})
          => /\ exc' # None
             /\ UNCHANGED <<scalefunc, invscalefunc, rng, active>>]_vars

C8_Witness ==
    /\ lastOp = "setScaling"
    /\ exc = "ValueError: No pixel scale set"
    /\ scalefunc = "shift"
    /\ changed

\* the request as a box with its bounds in order
ReqBox ==
    LET b == IF Len(lastArg) = 3
             THEN <<lastArg[1] - lastArg[3], lastArg[1] + lastArg[3],
                    lastArg[2] - lastArg[3], lastArg[2] + lastArg[3]>>
             ELSE lastArg
    IN  <<Min2(b[1], b[2]), Max2(b[1], b[2]),
          Min2(b[3], b[4]), Max2(b[3], b[4])>>

\* the interval the claim gives for bounds lo < hi on an axis of extent e
ClaimedAxis(lo, hi, e) ==
    IF hi - lo > e THEN <<0, e>>
    ELSE IF lo < 0 THEN <<0, hi - lo>>
    ELSE IF hi > e THEN <<e - (hi - lo), e>>
    ELSE <<lo, hi>>

\* C9: after an activateRange that completes, the view is the forward
\* scaling of the raster region that is, on each axis of extent E and for
\* ordered bounds lo < hi, [0,E) when hi-lo > E, [0,hi-lo) when lo < 0,
\* [E-(hi-lo),E) when hi > E and [lo,hi) otherwise; the region lies in the
\* image.
C9_RecenteredRegion ==
    (lastOp = "activateRange" /\ exc = None /\ lastArg # NoRange)
        => LET cx == ClaimedAxis(ReqBox[1], ReqBox[2], XR)
               cy == ClaimedAxis(ReqBox[3], ReqBox[4], YR)
           IN  /\ 0 <= cx[1] /\ cx[1] < cx[2] /\ cx[2] <= XR
               /\ 0 <= cy[1] /\ cy[1] < cy[2] /\ cy[2] <= YR
               /\ active.shape = <<cx[2] - cx[1], cy[2] - cy[1]>>
               /\ DOMAIN active.val = ViewDom(cx[2] - cx[1], cy[2] - cy[1])
               /\ \A q \in DOMAIN active.val :
                     active.val[q] =
                         ApplyFunc(scalefunc,
                                   file[chdu][<<cx[1] + q[1], cy[1] + q[2]>>])

C9_Witness ==
    /\ lastOp = "activateRange"
    /\ exc = None
    /\ lastArg = <<1, XR + 1, -1, 0>>
    /\ scalefunc = "shift"

\* C10: a box with an upper bound below its lower bound gives the view of
\* the box with those bounds swapped, and a box or a centre and radius with
\* equal bounds on an axis is rejected.
C10_SwapOrReject ==
    (lastOp = "activateRange" /\ Len(lastArg) \in {3, 4})
        => IF ReqBox[1] = ReqBox[2] \/ ReqBox[3] = ReqBox[4]
           THEN exc = "ValueError: tried to activate size 0 range"
           ELSE /\ exc = None
                /\ active = ViewOf(Cur, RangeBox(ReqBox))

C10_Witness ==
    /\ lastOp = "activateRange"
    /\ exc = None
    /\ lastArg = <<XR, 0, 1, 0>>
    /\ scalefunc = "shift"

PlaneErrors == {"IndexError", "KeyError"}

\* C11: with applyChangesOnActivate set, the dirty flag set and no inverse,
\* an activateRange whose range and plane are accepted completes, warns,
\* leaves every raster as it was, and its view is the forward scaling of the
\* raster region it selected.
C11_FailedAutoCommitWarns ==
    [][(/\ lastOp' = "activateRange"
        /\ applyChangesOnActivate /\ changed /\ invscalefunc = None
        /\ exc' \notin RangeErrors \cup PlaneErrors)
          => /\ exc' = None
             /\ warned'
             /\ file' = file
             /\ \A q \in DOMAIN active'.val :
                   active'.val[q] =
                       ApplyFunc(scalefunc',
                                 file'[chdu'][<<actbox'[1] + q[1],
                                               actbox'[3] + q[2]>>])]_vars

C11_Witness ==
    /\ lastOp = "activateRange"
    /\ exc = None
    /\ warned
    /\ invscalefunc = None
    /\ rng = <<0, 1, 1, 2>>

\* the forward scaling of the raster region the last completed
\* activateRange selected
FreshView ==
    [q \in ViewDom(actbox[2] - actbox[1], actbox[4] - actbox[3]) |->
        ApplyFunc(scalefunc, file[chdu][<<actbox[1] + q[1], actbox[3] + q[2]>>])]

\* C12: after every setScaling that completes, also one that names the pair
\* already in place, the view is the forward scaling of the raster region of
\* the current range.
C12_ScalingRederivesView ==
    (lastOp = "setScaling" /\ exc = None) => active.val = FreshView

ClipOps == {"clipOutliers", "clipSigma", "clipInvalids", "clipThreshold"}
ArgErrors == {"ValueError: unrecognized limit form",
              "ValueError: unrecognized comp operator"}

\* C13: every clip whose limits and comparison are accepted, with a number
\* or its default action, completes, returns one number, the count of the
\* flagged pixels, and leaves the dirty flag set.
C13_ClipReturnsCount ==
    [][(/\ lastOp' \in ClipOps
        /\ lastArg'[1] \in {"const", "noclipmedian"}
        /\ exc' \notin ArgErrors)
          => /\ exc' = None
             /\ ret' = [kind |-> "number", v |-> <<Cardinality(flags')>>]
             /\ changed']_vars

\* C14: a clip with action 'noclipmedian' completes, sets every flagged
\* pixel of the view to the median of the pixels not flagged and leaves the
\* pixels not flagged as they were.
C14_NoClipReplacement ==
    [][(/\ lastOp' \in ClipOps
        /\ lastArg'[1] = "noclipmedian"
        /\ exc' \notin ArgErrors)
          => /\ exc' = None
             /\ \A q \in DOMAIN active.val :
                   IF q \in flags'
                   THEN Rat(active'.val[q], 1) =
                            MedianOf(active.val, DOMAIN active.val \ flags')
                   ELSE active'.val[q] = active.val[q]]_vars

\* C15: a clip with action 'mask' called a second time right after the
\* first with the same arguments leaves the masked positions of the view as
\* the first call left them.
C15_MaskIdempotent ==
    [][(/\ lastOp' \in ClipOps /\ lastOp = lastOp'
        /\ lastArg[1] = "mask" /\ lastArg' = lastArg
        /\ exc = None /\ exc' = None)
          => amask' = amask]_vars

\* the positions of the view more than sigma standard deviations from the
\* mean, of the view's own values or of the forward scaling of the raster
ClaimedSigmaFlags(sigma, fullsig) ==
    LET v  == active.val
        sd == IF fullsig
              THEN [p \in Pix |-> ApplyFunc(scalefunc, file[chdu][p])]
              ELSE v
        n  == Cardinality(DOMAIN sd)
        s  == SumOver(sd, DOMAIN sd)
        d2 == n * SumOver([p \in DOMAIN sd |-> sd[p] * sd[p]], DOMAIN sd) - s * s
    IN  {q \in DOMAIN v :
            (n * v[q] - s) * (n * v[q] - s) > sigma * sigma * d2}

\* C16: clipSigma flags the pixels of the view more than sigma standard
\* deviations from the mean, the two taken from the view's own values when
\* fullsig is false and from the forward scaling of the raster when true.
C16_SigmaFlags ==
    [][(lastOp' = "clipSigma" /\ exc' = None)
          => flags' = ClaimedSigmaFlags(lastArg'[2], lastArg'[3])]_vars

C18_GlobalOffsets ==
    [][(/\ lastOp' = "offsetData"
        /\ lastArg'[1] \in {"gmin", "gminp1"}
        /\ rng = NoRange /\ scalefunc = "identity")
          => MinOf(active'.val, DOMAIN active'.val) =
                 (IF lastArg'[1] = "gminp1" THEN 1 ELSE 0)]_vars

\* C19: for every built-in scaling with both directions and every value for
\* which they are defined, the inverse applied to the forward function of
\* the value completes and gives the value back.
C19_InverseOfForward ==
    (lastOp = "roundtrip") =>
        /\ exc = None
        /\ ret = [kind |-> "number", v |-> <<lastArg[2]>>]

\* C20: when mosaic_objects or kcorrect_images has ended, by returning or by
\* raising, no file that call opened is still open
C20_OpenedFilesClosed ==
    lastOp \in {"mosaic_objects", "kcorrect_images"}
        => \A h \in openfiles : h[1] # nops

\* C21: the closed-form fit of at least three points with distinct x lying
\* exactly on y = m*x + b returns m, b and a residual standard deviation of
\* 0; the points (0,0),(1,2),(2,4),(3,6) give m = 2, b = 0
OnLine(d, m, b) == \A x \in DOMAIN d : d[x] = m * x + b

C21_ExactLinearFit ==
    lastOp = "LinearModel.fitData" =>
        \A m \in Slopes, b \in Intercepts :
            (Cardinality(DOMAIN lastArg[1]) >= 3 /\ OnLine(lastArg[1], m, b))
                => ret.v = <<Rat(m, 1), Rat(b, 1), Rat(0, 1)>>

C21_Witness ==
    /\ lastOp = "LinearModel.fitData"
    /\ lastArg[1] = (0 :> 0) @@ (1 :> 2) @@ (2 :> 4) @@ (3 :> 6)
    /\ ret.v = <<Rat(2, 1), Rat(0, 1), Rat(0, 1)>>

\* C28: integrate(lower, upper) is m*(upper^2 - lower^2)/2 + b*(upper -
\* lower); so integrate(a, a) = 0 and integrate(a, b) = -integrate(b, a)
C28_LinearIntegral ==
    lastOp = "LinearModel.integrate" =>
        ret.v[1] = Rat(lastArg[1] * (lastArg[4] * lastArg[4]
                                       - lastArg[3] * lastArg[3])
                         + 2 * lastArg[2] * (lastArg[4] - lastArg[3]),
                       2)

\* C22: with autocosmo=True the cosmological calculation is used exactly
\* when some redshift exceeds 0.1; otherwise the basic result is returned
C22_CosmoAboveTenth ==
    (lastOp = "distance_modulus" /\ exc = None /\ lastArg[3] = "True") =>
        (ret.kind = "cosmo"
            <=> \E i \in DOMAIN lastArg[1] : lastArg[1][i] > 10)

\* C30: deleting a band name removes the band and every group that lists
\* it, and every name listed in a group is a registered band
C30_DeleteRemovesBandAndGroups ==
    /\ lastOp = "delitem" =>
           /\ lastArg[1] \notin bands
           /\ \A g \in DOMAIN groupdict : lastArg[1] \notin groupdict[g]
    /\ \A g \in DOMAIN groupdict : groupdict[g] \subseteq bands

\* C23: in kcorrect_images, supplied zeropoints and pixelareas overwrite
\* each image's zeropoint and pixel scale (the square root of the area)
\* before 'sb' is selected; when not supplied the images keep their own
C23_SuppliedCalibration ==
    (lastOp = "kcorrect_images" /\ ret.kind = "images") =>
        /\ ret.v[1] = (IF lastArg[3] THEN <<ZptVal>> ELSE << >>)
        /\ ret.v[2] = (IF lastArg[5] = << >> THEN << >>
                       ELSE <<RootOf(lastArg[5][1], 2).v>>)

\* C24: constructing a CCDImage with scaling 'linear', 'log', 'exp',
\* 'power' or 'asinh' succeeds, the statistics being computed by the time
\* the mode is resolved, and the active view is the forward transform of
\* the raster region of the initial range
C24_ConstructWithNamedScaling ==
    lastOp = "construct" =>
        /\ exc = None
        /\ global_stats = GlobalStats(file, Cur)
        /\ active = ViewOf(Cur, RangeBox(rng))

\* C27: while log scaling with both bounds is in place, its forward
\* function maps the cached global minimum to lower and the cached global
\* maximum to upper
LogDefault == Mode("log", "both", "ten", 10, 0, 3, 0, 0)

C27_LogMapsGlobalBounds ==
    (scalefunc = "log" /\ exc = None) =>
        /\ LogForward(LogDefault, closure[1], closure[2], global_stats.min)
               = Exact(LogDefault.lower)
        /\ LogForward(LogDefault, closure[1], closure[2], global_stats.max)
               = Exact(LogDefault.upper)

\* C25: in every reachable state the cached global statistics are the
\* statistics of the whole raster of the current plane
C25_StatsNeverStale == global_stats = RasterStats

\* C26: with auto-commit enabled and the view edited, selecting a different
\* scaling commits the edits through the inverse of the scaling the view
\* was produced under (and cannot commit them when that scaling has none),
\* before the view is re-derived under the new one
C26_CommitWithPreviousInverse ==
    [][(/\ lastOp' = "setScaling"
        /\ exc' = None
        /\ applyChangesOnActivate
        /\ changed
        /\ (scalefunc' # scalefunc \/ invscalefunc' # invscalefunc))
          => IF invscalefunc = None
             THEN ~ committed' /\ file' = file
             ELSE committed' /\ file' = applyChanges(Cur).st.file]_vars

\* C29: every evaluation of a SmoothSplineModel returns the value of a
\* spline fitted to the stored fit data with the s and degree in place; an
\* evaluation refits exactly when s or degree differ from those of the last
\* fit, and fitData refits
FittedNow(o) ==
    [data |-> o.fitteddata, s |-> o.s, k |-> o.degree, w |-> o.ws]

C29_SplineCurrent ==
    /\ [](lastOp = "SmoothSplineModel.call"
             => ret.v[1] = FittedNow(splinemodel))
    /\ [][/\ lastOp' = "SmoothSplineModel.call"
             => ((splinemodel'.nfits # splinemodel.nfits)
                    <=> (\/ splinemodel.s # splinemodel.spline.s
                         \/ splinemodel.degree # splinemodel.spline.k))
          /\ lastOp' = "SmoothSplineModel.fitData"
             => /\ splinemodel'.nfits = splinemodel.nfits + 1
                /\ splinemodel'.spline = FittedNow(splinemodel')]_vars

C29_Witness ==
    /\ lastOp = "SmoothSplineModel.call"
    /\ splinemodel.nfits = 4
    /\ splinemodel.fitteddata = 2
    /\ splinemodel.s = 1
    /\ splinemodel.ws = "w"

====
